---- MODULE Spec2Model ----
(***************************************************************************)
(* Model of the two scripts of the repository:                             *)
(*   src/.agents/skills/cim-visualizer/scripts/analyze-log.py  (analyzer)  *)
(*   src/generate_log.py                                        (generator) *)
(* Text is modelled as sequences of one-character strings, so that the     *)
(* regular expressions, split, strip, upper and slicing of the source act  *)
(* on characters as they do in Python.                                     *)
(***************************************************************************)
EXTENDS Integers, Sequences, FiniteSets, TLC

VARIABLES pc, file, lines, format_type, idx, timestamps, devices, signals,
          output, target_size_bytes, current_size, line_count

vars == <<pc, file, lines, format_type, idx, timestamps, devices, signals,
          output, target_size_bytes, current_size, line_count>>

(***************************************************************************)
(* Characters and character classes of Python's re and str.                *)
(***************************************************************************)
DigitChars == <<"0", "1", "2", "3", "4", "5", "6", "7", "8", "9">>

LowerChars == <<"a", "b", "c", "d", "e", "f", "g", "h", "i", "j", "k", "l", "m",
                "n", "o", "p", "q", "r", "s", "t", "u", "v", "w", "x", "y", "z">>

UpperChars == <<"A", "B", "C", "D", "E", "F", "G", "H", "I", "J", "K", "L", "M",
                "N", "O", "P", "Q", "R", "S", "T", "U", "V", "W", "X", "Y", "Z">>

Range(f) == {f[i] : i \in DOMAIN f}

\* \d
Digits == Range(DigitChars)

\* \s
Whitespace == {" ", "\t", "\n", "\r"}

\* \w
WordChars == Range(LowerChars) \cup Range(UpperChars) \cup Digits \cup {"_"}

\* [\.\d]
DotDigits == Digits \cup {"."}

\* the numeric value of a decimal digit character
DigitVal(c) == (CHOOSE i \in 1..10 : DigitChars[i] = c) - 1

\* str.upper() on one character
UpperOf(c) ==
    IF c \in Range(LowerChars)
    THEN UpperChars[CHOOSE i \in 1..26 : LowerChars[i] = c]
    ELSE c

\* str.upper()
upper(s) == [i \in 1..Len(s) |-> UpperOf(s[i])]

\* s[:n]
Take(s, n) == SubSeq(s, 1, IF n < Len(s) THEN n ELSE Len(s))

\* needle in s
Contains(s, needle) ==
    \E i \in 1..(Len(s) - Len(needle) + 1) :
        SubSeq(s, i, i + Len(needle) - 1) = needle

\* c in s
HasChar(s, c) == \E i \in 1..Len(s) : s[i] = c

\* the end of a greedy run X* of characters of class cls that starts at i:
\* the first position at or after i that holds no character of cls
SpanEnd(s, i, cls) ==
    CHOOSE j \in i..(Len(s) + 1) :
        /\ \A k \in i..(j - 1) : s[k] \in cls
        /\ (j = Len(s) + 1 \/ s[j] \notin cls)

\* the end of a greedy run [^c]* that starts at i
SpanUntil(s, i, c) ==
    CHOOSE j \in i..(Len(s) + 1) :
        /\ \A k \in i..(j - 1) : s[k] # c
        /\ (j = Len(s) + 1 \/ s[j] = c)

\* \d{n} at position i
DigitsAt(s, i, n) == i + n - 1 <= Len(s) /\ \A k \in i..(i + n - 1) : s[k] \in Digits

\* the literal character c at position i
CharAt(s, i, c) == i <= Len(s) /\ s[i] = c

\* str.strip(): leading and trailing whitespace removed
strip(s) ==
    LET a == SpanEnd(s, 1, Whitespace)
        b == IF a > Len(s) THEN 0
             ELSE CHOOSE j \in a..Len(s) :
                     /\ s[j] \notin Whitespace
                     /\ \A k \in (j + 1)..Len(s) : s[k] \in Whitespace
    IN  IF a > Len(s) THEN <<>> ELSE SubSeq(s, a, b)

\* str.split(sep) for a one-character separator
RECURSIVE split(_, _)
split(s, sep) ==
    LET j == SpanUntil(s, 1, sep)
    IN  IF j > Len(s) THEN <<s>>
        ELSE <<SubSeq(s, 1, j - 1)>> \o split(SubSeq(s, j + 1, Len(s)), sep)

\* sep.join(parts) for a separator given as a character sequence
RECURSIVE join(_, _)
join(sep, parts) ==
    IF parts = <<>> THEN <<>>
    ELSE IF Len(parts) = 1 THEN parts[1]
    ELSE parts[1] \o sep \o join(sep, Tail(parts))

(***************************************************************************)
(* The regular expressions of the analyzer.                                *)
(***************************************************************************)
\* \d{4}-\d{2}-\d{2}\s+\d{2}:\d{2}:\d{2} matched at position i: the position
\* after the match, 0 when it does not match there.  \s+ is greedy and the
\* character after it must be a digit, so the run of whitespace is maximal.
DateTimeEnd(s, i) ==
    IF /\ DigitsAt(s, i, 4) /\ CharAt(s, i + 4, "-")
       /\ DigitsAt(s, i + 5, 2) /\ CharAt(s, i + 7, "-")
       /\ DigitsAt(s, i + 8, 2)
    THEN LET w == SpanEnd(s, i + 10, Whitespace)
         IN  IF /\ w > i + 10
                /\ DigitsAt(s, w, 2) /\ CharAt(s, w + 2, ":")
                /\ DigitsAt(s, w + 3, 2) /\ CharAt(s, w + 5, ":")
                /\ DigitsAt(s, w + 6, 2)
             THEN w + 8
             ELSE 0
    ELSE 0

\* re.search(r'\d{4}-\d{2}-\d{2}\s+\d{2}:\d{2}:\d{2}', s)
SearchDateTime(s) == \E i \in 1..Len(s) : DateTimeEnd(s, i) # 0

\* re.search(r'\[.*\]', s): the dot does not match a newline
SearchBracketed(s) ==
    \E i \in 1..Len(s) : \E j \in (i + 1)..Len(s) :
        /\ s[i] = "[" /\ s[j] = "]"
        /\ \A k \in (i + 1)..(j - 1) : s[k] # "\n"

NoMatch == [ok |-> FALSE, ts |-> <<>>, device |-> <<>>, signal |-> <<>>]

\* the record pattern
\* (\d{4}-\d{2}-\d{2}\s+\d{2}:\d{2}:\d{2}[\.\d]*)\s+\[([^\]]+)\]\s+(\w+)
\* matched at position i, with its three groups
PatternAt(s, i) ==
    LET e1 == DateTimeEnd(s, i)
    IN  IF e1 = 0 THEN NoMatch
        ELSE
        LET e2 == SpanEnd(s, e1, DotDigits)
            e3 == SpanEnd(s, e2, Whitespace)
        IN  IF ~(e3 > e2 /\ CharAt(s, e3, "[")) THEN NoMatch
            ELSE
            LET e4 == SpanUntil(s, e3 + 1, "]")
            IN  IF ~(e4 > e3 + 1 /\ e4 <= Len(s)) THEN NoMatch
                ELSE
                LET e5 == SpanEnd(s, e4 + 1, Whitespace)
                    e6 == SpanEnd(s, e5, WordChars)
                IN  IF ~(e5 > e4 + 1 /\ e6 > e5) THEN NoMatch
                    ELSE [ok |-> TRUE,
                          ts |-> SubSeq(s, i, e2 - 1),
                          device |-> SubSeq(s, e3 + 1, e4 - 1),
                          signal |-> SubSeq(s, e5, e6 - 1)]

\* re.search(pattern, line): the leftmost match
SearchPattern(s) ==
    IF \E i \in 1..Len(s) : PatternAt(s, i).ok
    THEN PatternAt(s, CHOOSE i \in 1..Len(s) :
                        /\ PatternAt(s, i).ok
                        /\ \A k \in 1..(i - 1) : ~PatternAt(s, k).ok)
    ELSE NoMatch

(***************************************************************************)
(* detect_format                                                           *)
(***************************************************************************)
SampleSize == 10

MinFields == 3

\* '\n'.join(lines[:10])
Sample(ls) == join(<<"\n">>, Take(ls, SampleSize))

AMHS == <<"A", "M", "H", "S">>

\* detect_format with the tab rule tried before the date-time rule
DetectFormatTabFirst(ls) ==
    IF ls = <<>> THEN "empty"
    ELSE IF HasChar(ls[1], "\t") /\ Len(split(ls[1], "\t")) > MinFields
    THEN "tab_separated"
    ELSE IF SearchDateTime(Sample(ls)) THEN "plc_debug"
    ELSE IF HasChar(ls[1], ",") /\ Len(split(ls[1], ",")) > MinFields
    THEN "csv"
    ELSE IF SearchBracketed(Sample(ls)) /\ Contains(upper(Sample(ls)), AMHS)
    THEN "mcs_amhs"
    ELSE "unknown"

detect_format(ls) ==
    IF ls = <<>> THEN "empty"
    ELSE IF SearchDateTime(Sample(ls)) THEN "plc_debug"
    ELSE IF HasChar(ls[1], "\t") /\ Len(split(ls[1], "\t")) > MinFields
    THEN "tab_separated"
    ELSE IF HasChar(ls[1], ",") /\ Len(split(ls[1], ",")) > MinFields
    THEN "csv"
    ELSE IF SearchBracketed(Sample(ls)) /\ Contains(upper(Sample(ls)), AMHS)
    THEN "mcs_amhs"
    ELSE "unknown"

(***************************************************************************)
(* datetime.strptime(s, '%Y-%m-%d %H:%M:%S') and the difference of two     *)
(* datetimes.  Every field of the format is a run of digits delimited by a *)
(* character that is no digit, so a field is the whole run of digits.      *)
(***************************************************************************)
RECURSIVE Num(_)
Num(ds) == IF ds = <<>> THEN 0
           ELSE 10 * Num(SubSeq(ds, 1, Len(ds) - 1)) + DigitVal(ds[Len(ds)])

IsLeap(y) == y % 4 = 0 /\ (y % 100 # 0 \/ y % 400 = 0)

DaysInMonth(y, m) ==
    IF m = 2 THEN (IF IsLeap(y) THEN 29 ELSE 28)
    ELSE IF m \in {4, 6, 9, 11} THEN 30 ELSE 31

RECURSIVE DaysBeforeMonth(_, _)
DaysBeforeMonth(y, m) ==
    IF m = 1 THEN 0 ELSE DaysBeforeMonth(y, m - 1) + DaysInMonth(y, m - 1)

\* datetime.toordinal()
ToOrdinal(y, m, d) ==
    (y - 1) * 365 + (y - 1) \div 4 - (y - 1) \div 100 + (y - 1) \div 400
    + DaysBeforeMonth(y, m) + d

ParseError == [ok |-> FALSE, year |-> 0, month |-> 0, day |-> 0,
               hour |-> 0, minute |-> 0, second |-> 0]

strptime(s) ==
    IF ~(DigitsAt(s, 1, 4) /\ CharAt(s, 5, "-")) THEN ParseError
    ELSE
    LET m2 == SpanEnd(s, 6, Digits)
        d2 == SpanEnd(s, m2 + 1, Digits)
        w2 == SpanEnd(s, d2, Whitespace)
        h2 == SpanEnd(s, w2, Digits)
        n2 == SpanEnd(s, h2 + 1, Digits)
        s2 == SpanEnd(s, n2 + 1, Digits)
        width(a, b) == b - a \in {1, 2}
    IN  IF ~(/\ width(6, m2) /\ CharAt(s, m2, "-")
             /\ width(m2 + 1, d2)
             /\ w2 > d2
             /\ width(w2, h2) /\ CharAt(s, h2, ":")
             /\ width(h2 + 1, n2) /\ CharAt(s, n2, ":")
             /\ width(n2 + 1, s2) /\ s2 = Len(s) + 1)
        THEN ParseError
        ELSE
        LET year   == Num(SubSeq(s, 1, 4))
            month  == Num(SubSeq(s, 6, m2 - 1))
            day    == Num(SubSeq(s, m2 + 1, d2 - 1))
            hour   == Num(SubSeq(s, w2, h2 - 1))
            minute == Num(SubSeq(s, h2 + 1, n2 - 1))
            second == Num(SubSeq(s, n2 + 1, s2 - 1))
        IN  IF /\ year >= 1
               /\ month \in 1..12
               /\ day >= 1 /\ day <= DaysInMonth(year, month)
               /\ hour \in 0..23 /\ minute \in 0..59 /\ second \in 0..59
            THEN [ok |-> TRUE, year |-> year, month |-> month, day |-> day,
                  hour |-> hour, minute |-> minute, second |-> second]
            ELSE ParseError

\* end - start: a timedelta, normalised to days and 0 <= seconds < 86400
Duration(start, end) ==
    LET ord(t) == ToOrdinal(t.year, t.month, t.day)
        sod(t) == t.hour * 3600 + t.minute * 60 + t.second
        d == ord(end) - ord(start)
        x == sod(end) - sod(start)
    IN  IF x < 0 THEN [days |-> d - 1, seconds |-> x + 86400]
        ELSE [days |-> d, seconds |-> x]

(***************************************************************************)
(* collections.Counter: a dict, which keeps its keys in insertion order.   *)
(***************************************************************************)
HasKey(c, k) == \E i \in 1..Len(c) : c[i].id = k

\* c[k] = 1 in place of c[k] += 1
CounterIncNoAdd(c, k) ==
    IF HasKey(c, k) THEN c ELSE Append(c, [id |-> k, count |-> 1])

\* c[k] += 1
CounterInc(c, k) ==
    IF HasKey(c, k)
    THEN [i \in 1..Len(c) |->
            IF c[i].id = k THEN [c[i] EXCEPT !.count = @ + 1] ELSE c[i]]
    ELSE Append(c, [id |-> k, count |-> 1])

\* a sort that lists the later of two equal counts first
RanksBeforeLatest(c, i, j) ==
    c[i].count > c[j].count \/ (c[i].count = c[j].count /\ i > j)

\* whether entry i is listed before entry j by most_common
RanksBefore(c, i, j) ==
    c[i].count > c[j].count \/ (c[i].count = c[j].count /\ i < j)

\* Counter.most_common(n): heapq.nlargest(n, items, key=count), that is
\* sorted(items, key=count, reverse=True)[:n], a stable sort
most_common(c, n) ==
    LET rank(i) == Cardinality({j \in 1..Len(c) : RanksBefore(c, j, i)}) + 1
        sorted  == [p \in 1..Len(c) |-> c[CHOOSE i \in 1..Len(c) : rank(i) = p]]
    IN  Take(sorted, n)

(***************************************************************************)
(* What the scripts print: one record for each print call.                 *)
(***************************************************************************)
Item(kind) == [kind |-> kind]

ItemNum(kind, n) == [kind |-> kind, num |-> n]

ItemText(kind, t) == [kind |-> kind, text |-> t]

ItemList(kind, l) == [kind |-> kind, list |-> l]

Printed(kind) == \E i \in 1..Len(output) : output[i].kind = kind

TimesPrinted(kind) == Cardinality({i \in 1..Len(output) : output[i].kind = kind})

ThePrinted(kind) == output[CHOOSE i \in 1..Len(output) : output[i].kind = kind]

(***************************************************************************)
(* analyze_plc_debug                                                       *)
(***************************************************************************)
TopN == 10

TimestampLen == 19

\* lines 49-54: the heading, and the empty accumulators
PlcBegin ==
    /\ output' = output \o <<Item("Format: PLC Debug"), Item("rule")>>
    /\ timestamps' = <<>>
    /\ devices' = <<>>
    /\ signals' = <<>>
    /\ idx' = 1
    /\ pc' = "plc_scan"

\* lines 59-65: one iteration of the loop over the lines
PlcScan ==
    /\ pc = "plc_scan"
    /\ idx <= Len(lines)
    /\ LET match == SearchPattern(lines[idx])
       IN  IF match.ok
           THEN /\ timestamps' = Append(timestamps, match.ts)
                /\ devices' = CounterInc(devices, match.device)
                /\ signals' = CounterInc(signals, match.signal)
           ELSE UNCHANGED <<timestamps, devices, signals>>
    /\ idx' = idx + 1
    /\ UNCHANGED <<pc, file, lines, format_type, output,
                   target_size_bytes, current_size, line_count>>

\* no handler around the parsing of the duration
NoExcept == FALSE

\* line 78: a bare except catches whatever the try block raises
BareExcept == TRUE

\* lines 72-79: the duration, printed unless strptime raises
DurationItems(ts) ==
    LET start == strptime(Take(ts[1], TimestampLen))
        end   == strptime(Take(ts[Len(ts)], TimestampLen))
    IN  IF start.ok /\ end.ok
        THEN [raised |-> FALSE,
              items |-> <<[kind |-> "Duration", dur |-> Duration(start, end)]>>]
        ELSE [raised |-> ~BareExcept, items |-> <<>>]

\* lines 67-87: the report; an exception that escapes ends it where it is
PlcReportItems(ts, devs, sigs) ==
    LET total == <<ItemNum("Total entries", Len(ts))>>
        range == IF ts # <<>>
                 THEN <<ItemList("Time range", <<ts[1], ts[Len(ts)]>>)>>
                 ELSE <<>>
        dur   == IF ts # <<>> THEN DurationItems(ts)
                 ELSE [raised |-> FALSE, items |-> <<>>]
        tops  == <<ItemList("Top 10 Devices", most_common(devs, TopN)),
                   ItemList("Top 10 Signals", most_common(sigs, TopN))>>
    IN  IF dur.raised
        THEN [raised |-> TRUE, items |-> total \o range]
        ELSE [raised |-> FALSE, items |-> total \o range \o dur.items \o tops]

PlcReport ==
    /\ pc = "plc_scan"
    /\ idx > Len(lines)
    /\ LET report == PlcReportItems(timestamps, devices, signals)
       IN  /\ output' = output \o report.items
           /\ pc' = IF report.raised THEN "raised" ELSE "done"
    /\ UNCHANGED <<file, lines, format_type, idx, timestamps, devices, signals,
                   target_size_bytes, current_size, line_count>>

(***************************************************************************)
(* analyze_csv, analyze_tab and the fallback of main                       *)
(***************************************************************************)
HeaderShown == 5

PreviewLines == 3

PreviewWidth == 80

Ellipsis == <<".", ".", ".">>

\* lines 89-100
analyze_csv(ls) ==
    <<Item("Format: CSV"), Item("rule")>>
    \o (IF ls = <<>> THEN <<>>
        ELSE LET header == split(strip(ls[1]), ",")
             IN  <<ItemNum("Columns", Len(header)),
                   ItemText("Headers",
                            join(<<",", " ">>, Take(header, HeaderShown))
                            \o (IF Len(header) > HeaderShown THEN Ellipsis ELSE <<>>)),
                   ItemNum("Data rows", Len(ls) - 1)>>)

\* analyze_tab with the header left out of the row count, as analyze_csv does
AnalyzeTabNoHeader(ls) ==
    <<Item("Format: Tab-Separated"), Item("rule")>>
    \o (IF ls = <<>> THEN <<>>
        ELSE LET cols == split(strip(ls[1]), "\t")
             IN  <<ItemNum("Columns", Len(cols)),
                   ItemNum("Data rows", Len(ls) - 1)>>)

\* lines 102-112
analyze_tab(ls) ==
    <<Item("Format: Tab-Separated"), Item("rule")>>
    \o (IF ls = <<>> THEN <<>>
        ELSE LET cols == split(strip(ls[1]), "\t")
             IN  <<ItemNum("Columns", Len(cols)),
                   ItemNum("Data rows", Len(ls))>>)

\* the fallback with the preview lines printed whole
FallbackUntruncated(tag, ls) ==
    <<[kind |-> "Format", tag |-> tag], Item("rule"), Item("First 3 lines")>>
    \o [i \in 1..Len(Take(ls, PreviewLines)) |->
          [kind |-> "preview", num |-> i, text |-> strip(ls[i])]]

\* lines 150-154
Fallback(tag, ls) ==
    <<[kind |-> "Format", tag |-> tag], Item("rule"), Item("First 3 lines")>>
    \o [i \in 1..Len(Take(ls, PreviewLines)) |->
          [kind |-> "preview", num |-> i,
           text |-> Take(strip(ls[i]), PreviewWidth)]]

(***************************************************************************)
(* main                                                                    *)
(***************************************************************************)
RECURSIVE TotalLen(_)
TotalLen(ls) == IF ls = <<>> THEN 0 ELSE Len(ls[1]) + TotalLen(Tail(ls))

\* lines 115-120: no file argument
MainUsage ==
    /\ pc = "main"
    /\ output' = <<Item("Usage")>>
    /\ pc' = "exit1"
    /\ UNCHANGED <<file, lines, format_type, idx, timestamps, devices, signals,
                   target_size_bytes, current_size, line_count>>

\* lines 127-131: the file cannot be read
MainReadError ==
    /\ pc = "main"
    /\ output' = <<Item("Analyzing"), Item("rule"), Item("Error reading file")>>
    /\ pc' = "exit1"
    /\ UNCHANGED <<file, lines, format_type, idx, timestamps, devices, signals,
                   target_size_bytes, current_size, line_count>>

\* lines 122-139: the file is read, its size printed and its format detected
MainRead ==
    /\ pc = "main"
    /\ lines' = file
    /\ output' = <<Item("Analyzing"), Item("rule"),
                   ItemNum("File size", TotalLen(file)),
                   ItemNum("Lines", Len(file))>>
    /\ format_type' = detect_format(file)
    /\ pc' = "dispatch"
    /\ UNCHANGED <<file, idx, timestamps, devices, signals,
                   target_size_bytes, current_size, line_count>>

\* lines 141-142
MainPlc ==
    /\ pc = "dispatch"
    /\ format_type = "plc_debug"
    /\ PlcBegin
    /\ UNCHANGED <<file, lines, format_type,
                   target_size_bytes, current_size, line_count>>

\* lines 143-144
MainCsv ==
    /\ pc = "dispatch"
    /\ format_type # "plc_debug"
    /\ format_type = "csv"
    /\ output' = output \o analyze_csv(lines)
    /\ pc' = "done"
    /\ UNCHANGED <<file, lines, format_type, idx, timestamps, devices, signals,
                   target_size_bytes, current_size, line_count>>

\* lines 145-146
MainTab ==
    /\ pc = "dispatch"
    /\ format_type \notin {"plc_debug", "csv"}
    /\ format_type = "tab_separated"
    /\ output' = output \o analyze_tab(lines)
    /\ pc' = "done"
    /\ UNCHANGED <<file, lines, format_type, idx, timestamps, devices, signals,
                   target_size_bytes, current_size, line_count>>

\* lines 147-148
MainEmpty ==
    /\ pc = "dispatch"
    /\ format_type \notin {"plc_debug", "csv", "tab_separated"}
    /\ format_type = "empty"
    /\ output' = Append(output, Item("File is empty"))
    /\ pc' = "done"
    /\ UNCHANGED <<file, lines, format_type, idx, timestamps, devices, signals,
                   target_size_bytes, current_size, line_count>>

\* lines 149-154
MainFallback ==
    /\ pc = "dispatch"
    /\ format_type \notin {"plc_debug", "csv", "tab_separated", "empty"}
    /\ output' = output \o Fallback(format_type, lines)
    /\ pc' = "done"
    /\ UNCHANGED <<file, lines, format_type, idx, timestamps, devices, signals,
                   target_size_bytes, current_size, line_count>>

(***************************************************************************)
(* The files the analyzer is run on.  A file is what readlines() returns:  *)
(* lines that end with a newline, the last one possibly without.           *)
(***************************************************************************)
\* the record shape the comment of line 56 documents
LinePlc ==
    <<"2", "0", "2", "4", "-", "0", "1", "-", "1", "5", " ", "1", "0", ":",
      "3", "0", ":", "4", "5", ".", "1", "2", "3", " ", "[", "D", "E", "V",
      "-", "0", "0", "1", "]", " ", "S", "i", "g", "n", "a", "l", "N", "a",
      "m", "e", " ", "=", " ", "V", "a", "l", "u", "e">>

\* the record shape the generator writes (generate_log.py line 34)
LineGen1 ==
    <<"2", "0", "2", "4", "-", "0", "1", "-", "1", "5", " ", "1", "0", ":",
      "0", "0", ":", "0", "0", " ", "[", "I", "n", "f", "o", "]", " ", "[",
      "D", "E", "V", "-", "1", "]", " ", "[", "T", "e", "m", "p", "]", " ",
      "(", "I", "n", "t", "e", "g", "e", "r", ")", " ", ":", " ", "3", "0">>

LineGen2 ==
    <<"2", "0", "2", "4", "-", "0", "1", "-", "1", "5", " ", "1", "0", ":",
      "0", "0", ":", "0", "1", " ", "[", "I", "n", "f", "o", "]", " ", "[",
      "D", "E", "V", "-", "1", "]", " ", "[", "T", "e", "m", "p", "]", " ",
      "(", "I", "n", "t", "e", "g", "e", "r", ")", " ", ":", " ", "3", "1">>

\* tab-separated lines: four fields, and three fields with a trailing tab
LineTab4 ==
    <<"a", "\t", "b", "\t", "c", "\t", "d">>

LineTabTrail ==
    <<"a", "\t", "b", "\t", "c", "\t">>

\* comma-separated lines
LineCsv5 ==
    <<"a", ",", "b", ",", "c", ",", "d", ",", "e">>

\* three tab fields and three comma fields: too few for either rule
LineFew ==
    <<"a", "\t", "b", "\t", "c", ",", "d", ",", "e">>

\* lines that meet two rules of detect_format
LineTabCsv ==
    <<"a", "\t", "b", "\t", "c", "\t", "d", ",", "e", ",", "f", ",", "g">>

LineDateCsv ==
    <<"2", "0", "2", "4", "-", "0", "1", "-", "1", "5", " ", "1", "0", ":",
      "0", "0", ":", "0", "0", ",", "a", ",", "b", ",", "c">>

LineDateTab ==
    <<"2", "0", "2", "4", "-", "0", "1", "-", "1", "5", " ", "1", "0", ":",
      "0", "0", ":", "0", "0", "\t", "a", "\t", "b", "\t", "c">>

\* bracketed text and the word AMHS
LineAmhs ==
    <<"[", "a", "m", "h", "s", "]", " ", "m", "o", "v", "e">>

LineBracket ==
    <<"[", "x", "]", " ", "y">>

LineWord ==
    <<"A", "M", "H", "S">>

\* a bracket pair and a date-time that are split over two lines
LineOpen ==
    <<"[", " ", "a", "m", "h", "s">>

LineClose ==
    <<"c", "l", "o", "s", "e", " ", "]">>

LineDate ==
    <<"2", "0", "2", "4", "-", "0", "1", "-", "1", "5">>

LineTime ==
    <<"1", "0", ":", "0", "0", ":", "0", "0", " ", "u", "p">>

\* plain text, and a line longer than the preview width
LinePlain ==
    <<"h", "e", "l", "l", "o">>

LineLong ==
    <<" ", " ", "0", "1", "2", "3", "4", "5", "6", "7", "8", "9", "0", "1",
      "2", "3", "4", "5", "6", "7", "8", "9", "0", "1", "2", "3", "4", "5",
      "6", "7", "8", "9", "0", "1", "2", "3", "4", "5", "6", "7", "8", "9",
      "0", "1", "2", "3", "4", "5", "6", "7", "8", "9", "0", "1", "2", "3",
      "4", "5", "6", "7", "8", "9", "0", "1", "2", "3", "4", "5", "6", "7",
      "8", "9", "0", "1", "2", "3", "4", "5", "6", "7", "8", "9", "a", "b",
      "c", "d", "e">>

Library ==
    {LinePlc, LineGen1, LineGen2, LineTab4, LineTabTrail, LineCsv5, LineFew,
     LineTabCsv, LineDateCsv, LineDateTab, LineAmhs, LineBracket, LineWord,
     LineOpen, LineClose, LineDate, LineTime, LinePlain, LineLong}

MaxBody == 2

MaxPad == 10

\* the sequences over S of length at most n
SeqsUpTo(S, n) == UNION {[1..k -> S] : k \in 0..n}

\* k copies of x
Repeat(x, k) == [i \in 1..k |-> x]

\* the line bodies, each ended by a newline, except perhaps the last
Terminate(bodies, last_newline) ==
    [i \in 1..Len(bodies) |->
        IF i < Len(bodies) \/ last_newline THEN Append(bodies[i], "\n")
        ELSE bodies[i]]

InputBodies ==
    SeqsUpTo(Library, MaxBody)
    \cup {Repeat(f, k) \o <<b>> : f \in {LinePlain, LineLong}, k \in 1..MaxPad,
                                  b \in Library}

InputFiles ==
    {Terminate(bs, TRUE) : bs \in InputBodies}
    \cup {Terminate(<<b>>, FALSE) : b \in Library}

Init ==
    /\ pc = "main"
    /\ file \in InputFiles
    /\ lines = <<>>
    /\ format_type = "none"
    /\ idx = 0
    /\ timestamps = <<>>
    /\ devices = <<>>
    /\ signals = <<>>
    /\ output = <<>>
    /\ target_size_bytes = 0
    /\ current_size = 0
    /\ line_count = 0

Next ==
    \/ MainUsage
    \/ MainReadError
    \/ MainRead
    \/ MainPlc
    \/ PlcScan
    \/ PlcReport
    \/ MainCsv
    \/ MainTab
    \/ MainEmpty
    \/ MainFallback

Spec == Init /\ [][Next]_vars

(***************************************************************************)
(* analyze_plc_debug as a function of any sequence of lines.               *)
(***************************************************************************)
\* records whose timestamp strptime rejects, or reads after truncation
LineBadMonth ==
    <<"2", "0", "2", "4", "-", "1", "3", "-", "4", "5", " ", "1", "0", ":",
      "3", "0", ":", "4", "5", " ", "[", "D", "E", "V", "-", "0", "0", "2",
      "]", " ", "O", "t", "h", "e", "r", " ", "=", " ", "1">>

LineTwoSpaces ==
    <<"2", "0", "2", "4", "-", "0", "1", "-", "1", "5", " ", " ", "1", "0",
      ":", "3", "0", ":", "4", "5", " ", "[", "D", "E", "V", "-", "0", "0",
      "1", "]", " ", "S", "i", "g", "n", "a", "l", "N", "a", "m", "e", " ",
      "=", " ", "2">>

LineThreeSpaces ==
    <<"2", "0", "2", "4", "-", "0", "1", "-", "1", "5", " ", " ", " ", "1",
      "0", ":", "3", "0", ":", "4", "5", " ", "[", "D", "E", "V", "-", "0",
      "0", "3", "]", " ", "S", "i", "g", "n", "a", "l", "N", "a", "m", "e",
      " ", "=", " ", "3">>

StampPrefix ==
    <<"2", "0", "2", "4", "-", "0", "1", "-", "1", "5", " ", "1", "0", ":",
      "3", "0", ":">>

StampSuffix ==
    <<".", "1", "2", "3">>

DevPrefix ==
    <<"D", "E", "V", "-">>

SigPrefix ==
    <<"S", "i", "g">>

ValueSuffix ==
    <<" ", "=", " ", "1">>

PlcLibrary ==
    {LinePlc, LineBadMonth, LineTwoSpaces, LineThreeSpaces, LineGen1, LinePlain}

MaxPlcLines == 3

MaxDevices == 11

MaxExtra == 2

\* n as two decimal digits
Pad2(n) == <<DigitChars[((n \div 10) % 10) + 1], DigitChars[(n % 10) + 1]>>

\* the i-th record of a file: device dev reports signal sig
RecordLine(i, dev, sig) ==
    StampPrefix \o Pad2(i) \o StampSuffix \o <<" ", "[">> \o DevPrefix \o Pad2(dev)
    \o <<"]", " ">> \o SigPrefix \o Pad2(sig) \o ValueSuffix

\* the records of a file in which the devices of hits report in that order,
\* device a reporting signal sig[a]
HitBodies(hits, sig) == [i \in 1..Len(hits) |-> RecordLine(i, hits[i], sig[hits[i]])]

\* n devices report once, in order, each its own signal; then the devices of
\* extra report again, device a reporting the signal of device n + 1 - a
RankingBodies(n, extra) ==
    [i \in 1..(n + Len(extra)) |->
        IF i <= n THEN RecordLine(i, i, i)
        ELSE RecordLine(i, extra[i - n], n + 1 - extra[i - n])]

\* the devices that report again: the first two and the last
ExtraDevices(n) == {1, 2, n} \cap 1..n

\* counts {A:5, B:5, C:3}, A seen before B
ExampleHits == <<1, 2, 3, 1, 2, 3, 2, 1, 3, 2, 1, 2, 1>>

PlcInputs ==
    {Terminate(bs, TRUE) : bs \in SeqsUpTo(PlcLibrary, MaxPlcLines)}
    \cup UNION {{Terminate(RankingBodies(n, extra), TRUE) :
                    extra \in SeqsUpTo(ExtraDevices(n), MaxExtra)} :
                 n \in 0..MaxDevices}
    \cup {Terminate(HitBodies(ExampleHits, <<1, 2, 3>>), TRUE)}

InitPlc ==
    /\ pc = "plc_call"
    /\ lines \in PlcInputs
    /\ file = <<>>
    /\ format_type = "plc_debug"
    /\ idx = 0
    /\ timestamps = <<>>
    /\ devices = <<>>
    /\ signals = <<>>
    /\ output = <<>>
    /\ target_size_bytes = 0
    /\ current_size = 0
    /\ line_count = 0

PlcCall ==
    /\ pc = "plc_call"
    /\ PlcBegin
    /\ UNCHANGED <<file, lines, format_type,
                   target_size_bytes, current_size, line_count>>

NextPlc ==
    \/ PlcCall
    \/ PlcScan
    \/ PlcReport

SpecPlc == InitPlc /\ [][NextPlc]_vars

(***************************************************************************)
(* generate_large_log                                                      *)
(***************************************************************************)
\* str(n) for n >= 0
RECURSIVE Str(_)
Str(n) == IF n < 10 THEN <<DigitChars[n + 1]>>
          ELSE Str(n \div 10) \o <<DigitChars[(n % 10) + 1]>>

\* n in decimal, zero-padded to w digits
RECURSIVE PadN(_, _)
PadN(n, w) == IF w = 0 THEN <<>>
              ELSE PadN(n \div 10, w - 1) \o <<DigitChars[(n % 10) + 1]>>

\* line 9
GenDevices ==
    <<<<"S", "Y", "S", "T", "E", "M", "/", "L", "I", "N", "E", "1", "/", "D", "E", "V", "-", "1", "0", "1">>,
      <<"S", "Y", "S", "T", "E", "M", "/", "L", "I", "N", "E", "1", "/", "D", "E", "V", "-", "1", "0", "2">>,
      <<"S", "Y", "S", "T", "E", "M", "/", "L", "I", "N", "E", "1", "/", "D", "E", "V", "-", "1", "0", "3">>,
      <<"S", "Y", "S", "T", "E", "M", "/", "L", "I", "N", "E", "1", "/", "D", "E", "V", "-", "1", "0", "4">>>>

TypeInteger == <<"I", "n", "t", "e", "g", "e", "r">>

TypeString == <<"S", "t", "r", "i", "n", "g">>

TypeBoolean == <<"B", "o", "o", "l", "e", "a", "n">>

OnOff == {<<"O", "N">>, <<"O", "F", "F">>}

\* random.randint(a, b), drawn from the two ends of the range and from one
\* value of every number of digits between them
RandIntSample(a, b) ==
    {a, b} \cup {n \in {1, 10, 100, 1000} : a <= n /\ n <= b}

\* lines 10-18: each signal with its type and the values it may take
GenSignals ==
    <<[name |-> <<"I", "N", "P", "U", "T", ":", "T", "e", "m", "p", "e", "r", "a", "t", "u", "r", "e">>,
       type |-> TypeInteger, values |-> {Str(n) : n \in RandIntSample(10, 50)}],
      [name |-> <<"I", "N", "P", "U", "T", ":", "C", "o", "u", "n", "t", "e", "r">>,
       type |-> TypeInteger, values |-> {Str(n) : n \in RandIntSample(0, 1000)}],
      [name |-> <<"I", "N", "P", "U", "T", ":", "M", "o", "d", "e">>,
       type |-> TypeString,
       values |-> {<<"R", "U", "N", "N", "I", "N", "G">>,
                   <<"S", "T", "O", "P", "P", "E", "D">>,
                   <<"E", "R", "R", "O", "R">>,
                   <<"S", "T", "O", "P", "P", "I", "N", "G">>}],
      [name |-> <<"I", "N", "P", "U", "T", ":", "S", "e", "n", "s", "o", "r", "_", "A">>,
       type |-> TypeBoolean, values |-> OnOff],
      [name |-> <<"I", "N", "P", "U", "T", ":", "P", "r", "e", "s", "s", "u", "r", "e">>,
       type |-> TypeInteger, values |-> {Str(n) : n \in RandIntSample(50, 150)}],
      [name |-> <<"I", "N", "P", "U", "T", ":", "M", "o", "t", "o", "r", "_", "R", "u", "n", "n", "i", "n", "g">>,
       type |-> TypeBoolean, values |-> OnOff],
      [name |-> <<"I", "N", "P", "U", "T", ":", "S", "y", "s", "t", "e", "m", "_", "S", "t", "a", "t", "e">>,
       type |-> TypeString,
       values |-> {<<"O", "K">>, <<"W", "A", "R", "N", "I", "N", "G">>,
                   <<"E", "R", "R", "O", "R">>}]>>

\* line 20: datetime(2025, 9, 22, 13, 0, 0)
StartTime == [year |-> 2025, month |-> 9, day |-> 22,
              hour |-> 13, minute |-> 0, second |-> 0]

TickMs == 10

\* the timestamp with "T" between the date and the time
TimestampIso(n) ==
    LET ms    == n * 10
        secs  == 13 * 3600 + ms \div 1000
        sod   == secs % 86400
    IN  PadN(2025, 4) \o <<"-">> \o PadN(9, 2) \o <<"-">>
        \o PadN(22 + secs \div 86400, 2) \o <<"T">>
        \o PadN(sod \div 3600, 2) \o <<":">>
        \o PadN((sod % 3600) \div 60, 2) \o <<":">>
        \o PadN(sod % 60, 2) \o <<".">> \o PadN(ms % 1000, 3)

\* lines 30-32: (start_time + timedelta(milliseconds=n * 10))
\* .strftime("%Y-%m-%d %H:%M:%S.%f")[:-3], for times within September 2025
Timestamp(n) ==
    LET ms    == n * TickMs
        secs  == StartTime.hour * 3600 + StartTime.minute * 60
                 + StartTime.second + ms \div 1000
        day   == StartTime.day + secs \div 86400
        sod   == secs % 86400
        full  == PadN(StartTime.year, 4) \o <<"-">> \o PadN(StartTime.month, 2)
                 \o <<"-">> \o PadN(day, 2) \o <<" ">>
                 \o PadN(sod \div 3600, 2) \o <<":">>
                 \o PadN((sod % 3600) \div 60, 2) \o <<":">>
                 \o PadN(sod % 60, 2) \o <<".">>
                 \o PadN((ms % 1000) * 1000, 6)
    IN  SubSeq(full, 1, Len(full) - 3)

\* line 34
GenLine(n, device, sig, val) ==
    Timestamp(n) \o <<" ", "[", "I", "n", "f", "o", "]", " ", "[">> \o device
    \o <<"]", " ", "[">> \o sig.name \o <<"]", " ", "(">> \o sig.type
    \o <<")", " ", ":", " ">> \o val \o <<"\n">>

\* the loop condition with <= for <
LoopConditionInclusive(size, target) == size <= target

\* line 24: the loop condition
LoopCondition(size, target) == size < target

ProgressEvery == 10000

\* lines 24-40: one iteration of the loop
GenWrite ==
    /\ pc = "gen_loop"
    /\ LoopCondition(current_size, target_size_bytes)
    /\ \E d \in 1..Len(GenDevices), k \in 1..Len(GenSignals) :
          \E val \in GenSignals[k].values :
             LET line == GenLine(line_count, GenDevices[d], GenSignals[k], val)
             IN  /\ file' = Append(file, line)
                 /\ current_size' = current_size + Len(line)
    /\ line_count' = line_count + 1
    /\ output' = IF line_count' % ProgressEvery = 0
                  THEN Append(output, ItemNum("Generated", current_size'))
                  ELSE output
    /\ UNCHANGED <<pc, lines, format_type, idx, timestamps, devices, signals,
                   target_size_bytes>>

\* lines 24, 42: the loop ends, the file is closed
GenExit ==
    /\ pc = "gen_loop"
    /\ ~LoopCondition(current_size, target_size_bytes)
    /\ output' = Append(output, ItemNum("Done! Created", current_size))
    /\ pc' = "gen_done"
    /\ UNCHANGED <<file, lines, format_type, idx, timestamps, devices, signals,
                   target_size_bytes, current_size, line_count>>

\* the written file is read back (read_log_file) and given to detect_format
ReadBack ==
    /\ pc = "gen_done"
    /\ lines' = file
    /\ format_type' = detect_format(file)
    /\ pc' = "done"
    /\ UNCHANGED <<file, idx, timestamps, devices, signals, output,
                   target_size_bytes, current_size, line_count>>

\* target_size_mb is a number; the sizes drawn are the multiples of
\* 1 / TargetScale megabytes from -1 / TargetScale to MaxTarget / TargetScale
TargetScale == 32768

MaxTarget == 4

\* line 6: target_size_mb * 1024 * 1024
TargetBytes(n) == (n * 1024 * 1024) \div TargetScale

InitGen ==
    /\ pc = "gen_loop"
    /\ target_size_bytes \in {TargetBytes(n) : n \in -1..MaxTarget}
    /\ current_size = 0
    /\ line_count = 0
    /\ file = <<>>
    /\ lines = <<>>
    /\ format_type = "none"
    /\ idx = 0
    /\ timestamps = <<>>
    /\ devices = <<>>
    /\ signals = <<>>
    /\ output = <<>>

NextGen ==
    \/ GenWrite
    \/ GenExit
    \/ ReadBack

SpecGen == InitGen /\ [][NextGen]_vars

\* the script runs on: a step that can be taken is taken
FairSpecGen == SpecGen /\ WF_vars(NextGen)

(***************************************************************************)
(* Properties of the analyzer and of the generator.                        *)
(***************************************************************************)
Tags == {"plc_debug", "csv", "tab_separated", "mcs_amhs", "unknown", "empty"}

\* the number of occurrences of c in s; splitting s on c gives one field more
CountChar(s, c) == Cardinality({i \in 1..Len(s) : s[i] = c})

Min(a, b) == IF a < b THEN a ELSE b

Detected == pc \in {"dispatch", "plc_scan", "done", "raised"}

\* what main prints before it dispatches
MainHeaderLen == 4

BranchOutput == SubSeq(output, MainHeaderLen + 1, Len(output))

\* C1: detect_format returns one of the six tags, the one of the first rule
\* that matches in the order empty, date-time in the sample of the first ten
\* lines, tab with more than 3 fields, comma with more than 3 fields,
\* bracketed text with AMHS in the upper-cased sample, unknown.
C1_RuleOrder ==
    Detected =>
        LET sample == Sample(lines)
            date == SearchDateTime(sample)
            tab  == CountChar(lines[1], "\t") + 1 > 3
            csv  == CountChar(lines[1], ",") + 1 > 3
            amhs == SearchBracketed(sample) /\ Contains(upper(sample), AMHS)
        IN  /\ format_type \in Tags
            /\ format_type = IF lines = <<>> THEN "empty"
                             ELSE IF date THEN "plc_debug"
                             ELSE IF tab THEN "tab_separated"
                             ELSE IF csv THEN "csv"
                             ELSE IF amhs THEN "mcs_amhs"
                             ELSE "unknown"

\* a file that meets the date-time rule and the csv rule, found plc_debug
C1_Witness ==
    /\ pc = "done"
    /\ lines # <<>>
    /\ SearchDateTime(Sample(lines))
    /\ CountChar(lines[1], ",") + 1 > 3
    /\ format_type = "plc_debug"

ExampleFile == Terminate(<<LineGen1, LineGen2>>, TRUE)

DEV1 == <<"D", "E", "V", "-", "1">>

\* C2: for the two example lines of the generator's shape the analyzer
\* detects plc_debug and reports 2 entries, the top device being DEV-1 with
\* count 2.
C2_ExampleEntries ==
    (pc = "done" /\ file = ExampleFile) =>
        /\ format_type = "plc_debug"
        /\ ThePrinted("Total entries").num = 2
        /\ ThePrinted("Top 10 Devices").list # <<>>
        /\ ThePrinted("Top 10 Devices").list[1] = [id |-> DEV1, count |-> 2]

\* the lines among the first k that match the record pattern
Matched(k) == {i \in 1..k : SearchPattern(lines[i]).ok}

RECURSIVE SumCounts(_)
SumCounts(c) == IF c = <<>> THEN 0 ELSE c[1].count + SumCounts(Tail(c))

\* C3: after any prefix of the lines is scanned, the timestamps are as many
\* as the scanned lines that match the record pattern, the device counts and
\* the signal counts are non-negative and each sum to that number, and
\* 'Total entries' is that number for all the lines.
C3_CountsMatchLines ==
    pc \in {"plc_scan", "done"} =>
        LET n == Cardinality(Matched(idx - 1))
        IN  /\ Len(timestamps) = n
            /\ \A i \in 1..Len(devices) : devices[i].count >= 0
            /\ \A i \in 1..Len(signals) : signals[i].count >= 0
            /\ SumCounts(devices) = n
            /\ SumCounts(signals) = n
            /\ pc = "done" =>
                 ThePrinted("Total entries").num = Cardinality(Matched(Len(lines)))

\* lines that match, a line that does not, and a device seen twice
C3_Witness ==
    /\ pc = "done"
    /\ Len(timestamps) >= 2
    /\ Len(timestamps) < Len(lines)
    /\ \E i \in 1..Len(devices) : devices[i].count >= 2

BranchHeads ==
    {"Format: PLC Debug", "Format: CSV", "Format: Tab-Separated",
     "File is empty", "Format"}

\* C4: main runs one report branch, chosen by the tag alone: the PLC, CSV
\* or tab summarizer, for empty only the 'File is empty' message, and for
\* mcs_amhs and unknown alike the tag and a preview of at most the first
\* three lines, each cut to 80 characters; no lines, then the empty branch.
C4_OneBranchPerTag ==
    pc = "done" =>
        /\ Cardinality({i \in 1..Len(output) : output[i].kind \in BranchHeads}) = 1
        /\ format_type = "plc_debug" => Printed("Format: PLC Debug")
        /\ format_type = "csv" => Printed("Format: CSV")
        /\ format_type = "tab_separated" => Printed("Format: Tab-Separated")
        /\ format_type = "empty" => BranchOutput = <<Item("File is empty")>>
        /\ format_type \in {"mcs_amhs", "unknown"} =>
             /\ Printed("Format")
             /\ ThePrinted("Format").tag = format_type
             /\ TimesPrinted("preview") = Min(Len(lines), 3)
             /\ \A i \in 1..Len(output) :
                  output[i].kind = "preview" =>
                    LET whole == strip(lines[output[i].num])
                        shown == output[i].text
                    IN  /\ Len(shown) = Min(Len(whole), 80)
                        /\ shown = SubSeq(whole, 1, Len(shown))
        /\ format_type \notin {"mcs_amhs", "unknown"} => ~Printed("preview")
        /\ lines = <<>> => format_type = "empty"

\* an mcs_amhs file of more than three lines, the first longer than 80
C4_Witness ==
    /\ pc = "done"
    /\ format_type = "mcs_amhs"
    /\ Len(lines) > 3
    /\ TimesPrinted("preview") = 3
    /\ Len(strip(lines[1])) > 80
    /\ \E i \in 1..Len(output) :
         output[i].kind = "preview" /\ output[i].num = 1 /\ Len(output[i].text) = 80

\* the position in the lines at which device id is first seen
FirstSeenDevice(id) ==
    CHOOSE i \in 1..Len(lines) :
        /\ SearchPattern(lines[i]).ok /\ SearchPattern(lines[i]).device = id
        /\ \A k \in 1..(i - 1) :
             ~(SearchPattern(lines[k]).ok /\ SearchPattern(lines[k]).device = id)

FirstSeenSignal(id) ==
    CHOOSE i \in 1..Len(lines) :
        /\ SearchPattern(lines[i]).ok /\ SearchPattern(lines[i]).signal = id
        /\ \A k \in 1..(i - 1) :
             ~(SearchPattern(lines[k]).ok /\ SearchPattern(lines[k]).signal = id)

\* a ranking of the identifiers of counter: at most 10, by descending count,
\* equal counts in the order first seen, nothing left out that counts more
Ranked(list, counter, FirstSeen(_)) ==
    /\ Len(list) = Min(Len(counter), 10)
    /\ \A p \in 1..Len(list) : \E i \in 1..Len(counter) : counter[i] = list[p]
    /\ \A p, q \in 1..Len(list) :
         p < q => \/ list[p].count > list[q].count
                  \/ /\ list[p].count = list[q].count
                     /\ FirstSeen(list[p].id) < FirstSeen(list[q].id)
    /\ \A i \in 1..Len(counter) :
         (\A p \in 1..Len(list) : list[p].id # counter[i].id) =>
             \A p \in 1..Len(list) : counter[i].count <= list[p].count

\* C5: the device ranking and the signal ranking each list at most 10
\* identifiers by descending count, identifiers of equal count in the order
\* in which they were first met, and an identifier left out counts no more
\* than any that is listed.
C5_StableTopTen ==
    pc = "done" =>
        /\ Ranked(ThePrinted("Top 10 Devices").list, devices, FirstSeenDevice)
        /\ Ranked(ThePrinted("Top 10 Signals").list, signals, FirstSeenSignal)

\* more than 10 devices, the first two listed with equal counts, although
\* the second of them was the first to reach that count
C5_Witness ==
    /\ pc = "done"
    /\ Len(devices) > 10
    /\ LET list == ThePrinted("Top 10 Devices").list
       IN  /\ list[1].count = list[2].count
           /\ list[2].count > list[3].count
           /\ \E i \in 1..Len(lines) :
                /\ SearchPattern(lines[i]).ok
                /\ SearchPattern(lines[i]).device = list[2].id
                /\ i > FirstSeenDevice(list[2].id)
                /\ \E k \in (i + 1)..Len(lines) :
                     /\ SearchPattern(lines[k]).ok
                     /\ SearchPattern(lines[k]).device = list[1].id

\* the file with every line after the first emptied
FirstOnly(ls) == [i \in 1..Len(ls) |-> IF i = 1 THEN ls[1] ELSE <<>>]

\* C6: a csv file of N lines is reported with N - 1 data rows, a
\* tab_separated file of N lines with N data rows, and neither report
\* depends on a line after the first.
C6_RowCounts ==
    pc = "done" =>
        /\ format_type = "csv" =>
             /\ ThePrinted("Data rows").num = Len(lines) - 1
             /\ BranchOutput = analyze_csv(FirstOnly(lines))
        /\ format_type = "tab_separated" =>
             /\ ThePrinted("Data rows").num = Len(lines)
             /\ BranchOutput = analyze_tab(FirstOnly(lines))

\* a csv file of two lines, the second of another shape
C6_Witness ==
    /\ pc = "done"
    /\ format_type = "csv"
    /\ Len(lines) = 2
    /\ lines[2] # lines[1]
    /\ ThePrinted("Data rows").num = 1

\* C7, as stated: whatever the target size, the written file read back is
\* classified plc_debug.
C7_RoundTripAlways == pc = "done" => format_type = "plc_debug"

\* C7, amended: for every target size above zero, the written file read
\* back is classified plc_debug.
C7_RoundTripPositive ==
    (pc = "done" /\ target_size_bytes > 0) => format_type = "plc_debug"

\* a file of two generated lines, read back
C7_Witness ==
    /\ pc = "done"
    /\ target_size_bytes > 0
    /\ Len(lines) = 2
    /\ format_type = "plc_debug"

\* whether strptime reads the first 19 characters of a timestamp
Parses(ts) == strptime(Take(ts, 19)).ok

C8_Report ==
    /\ pc # "raised"
    /\ pc = "done" =>
         /\ TimesPrinted("Total entries") = 1
         /\ TimesPrinted("Top 10 Devices") = 1
         /\ TimesPrinted("Top 10 Signals") = 1
         /\ Printed("Time range") <=> timestamps # <<>>
         /\ Printed("Duration") <=>
              /\ timestamps # <<>>
              /\ Parses(timestamps[1])
              /\ Parses(timestamps[Len(timestamps)])

\* the steps left before the report is printed
C8_StepsLeft ==
    IF pc = "plc_call" THEN Len(lines) + 2
    ELSE IF pc = "plc_scan" THEN Len(lines) + 2 - idx
    ELSE 0

\* every step is one step nearer to the end, which is the printed report
C8_Progress ==
    /\ C8_StepsLeft' = C8_StepsLeft - 1
    /\ C8_StepsLeft' >= 0
    /\ C8_StepsLeft' = 0 <=> pc' = "done"

\* C8: analyze_plc_debug ends without an exception for every sequence of
\* lines; the entry count and both rankings are always printed, the time
\* range exactly when a line matched, and the duration exactly when a line
\* matched and the first and the last timestamp both parse.
C8_ReportSurvivesBadTimestamps == []C8_Report /\ [][C8_Progress]_vars

\* the last timestamp does not parse: no duration, the rest is printed
C8_Witness ==
    /\ pc = "done"
    /\ Len(timestamps) >= 2
    /\ Parses(timestamps[1])
    /\ ~Parses(timestamps[Len(timestamps)])
    /\ ~Printed("Duration")
    /\ Printed("Time range")
    /\ Printed("Top 10 Signals")

C9_Sizes ==
    /\ current_size = TotalLen(file)
    /\ line_count = Len(file)
    /\ target_size_bytes <= 0 => file = <<>>
    /\ pc \in {"gen_done", "done"} =>
         /\ current_size >= target_size_bytes
         /\ file # <<>> => current_size - Len(file[Len(file)]) < target_size_bytes

C9_Iteration ==
    file' # file =>
        /\ current_size < target_size_bytes
        /\ file' = Append(file, file'[Len(file')])
        /\ Len(file'[Len(file')]) > 0
        /\ current_size' > current_size

\* C9: generate_large_log terminates; an iteration writes one non-empty
\* line and strictly increases the cumulative size, and runs only while the
\* size is below the target, so that at the end the size is at least the
\* target and exceeds it by less than the last line, and a target of 0
\* writes no line.
C9_GeneratorTerminates ==
    /\ []C9_Sizes
    /\ [][C9_Iteration]_vars
    /\ <>(pc \in {"gen_done", "done"})

\* the loop has ended after two lines, past the target
C9_Witness ==
    /\ pc = "gen_done"
    /\ Len(file) = 2
    /\ current_size > target_size_bytes
    /\ target_size_bytes > 0

\* C10: the column count the tab summarizer reports is the number of
\* fields of the first line split on the tab, the count the detector
\* tested, and so more than 3; likewise for the CSV summarizer and commas.
C10_ColumnsAsDetected ==
    pc = "done" =>
        /\ format_type = "tab_separated" =>
             /\ ThePrinted("Columns").num = Len(split(lines[1], "\t"))
             /\ ThePrinted("Columns").num > 3
        /\ format_type = "csv" =>
             /\ ThePrinted("Columns").num = Len(split(lines[1], ","))
             /\ ThePrinted("Columns").num > 3

====
